---- MODULE Spec2Model ----
(***************************************************************************)
(* Front-end of "Yet Another Downloader" (innv8/yad).                      *)
(*                                                                         *)
(* The repository holds three snapshots of the page script:                *)
(*   "main"     src/src/assets/js/main.js   (getRecords + paste only)      *)
(*   "part_001" src/unnamed/part_001, lines 111-317 (the second, complete  *)
(*              copy in that file: downloadProgress map, four listeners)   *)
(*   "part_000" src/unnamed/part_000 (no map, percentage from the event    *)
(*              alone, getRecords on 100 %, open_file on click)            *)
(* The variable script says which snapshot is loaded in the page.          *)
(*                                                                         *)
(* JavaScript numbers are integers here, with three special values:        *)
(*   NaN, Undefined, Infinity (negative codes, never valid byte counts).   *)
(***************************************************************************)
EXTENDS Integers, Sequences, FiniteSets, TLC

\* ---------------------------------------------------------------- bounds
MaxBytes   == 3   \* cap on the bytes one id accumulates
MaxRows    == 2   \* cap on the rows of <tbody id="download-records">
MaxPending == 1   \* cap on fetch_records requests in flight
MaxDownloads == 2 \* cap on the invoke("download") calls of one run
MaxMessages == 1  \* cap on the download-message events of one session
MaxInFlight == 2  \* cap on fetch_records requests in flight in SpecResync
MaxOpens == 2     \* cap on the invoke("open_file") calls of one run

\* ------------------------------------------------- JavaScript value codes
NaN       == -1
Undefined == -2
Infinity  == -3

IsNum(x) == x >= 0

Ids      == {1, 2}
\* The keys of downloadProgress: data['downloadId'] of a payload without the
\* field is undefined, and downloadProgress[undefined] is the key "undefined".
Keys     == Ids \cup {Undefined}
Deltas   == {1, 2}
Totals   == {0, 2}
Scripts  == {"main", "part_000", "part_001"}
Statuses == {"Pending", "InProgress", "Finished", "Failed", "Cancelled"}
Terminal == {"Finished", "Failed", "Cancelled"}
StoreStatuses == {"InProgress", "Finished"}  \* statuses the backend takes here

\* x + d in JavaScript, d a number: undefined + d and NaN + d are NaN.
JsAdd(x, d) == IF IsNum(x) THEN x + d ELSE NaN

\* Number.prototype.toFixed(digits) of (cur / total) * 100, as the integer
\* scaled by 10^digits ("50.00" is 5000 with digits = 2), or NaN / Infinity.
Pow10(d) == IF d = 0 THEN 1 ELSE 100

ToFixedPct(cur, total, digits) ==
    IF ~IsNum(cur) \/ ~IsNum(total) THEN NaN
    ELSE IF total = 0 THEN (IF cur = 0 THEN NaN ELSE Infinity)
    ELSE (2 * cur * 100 * Pow10(digits) + total) \div (2 * total)

\* The text shown in a progress cell: the scaled value and its digits.
PctText(v, digits) == [val |-> v, digits |-> digits]

\* percentage == 100 (string compared with a number: numeric comparison)
IsHundred(p) == p.val = 100 * Pow10(p.digits)

\* getSize(size): Math.round(finalSize * 10) / 10 and the unit; the value is
\* kept in tenths. Every comparison with NaN / undefined is false, so those
\* fall to the last branch. The divisors are powers of 1024; the division is
\* done 1024 at a time so that no intermediate value leaves 32 bits:
\* Math.round(y) = floor((floor(2y) + 1) / 2), with floor(2y) =
\* floor(20 * size / 1024^n).
Times20Div1024(size) == 5 * (size \div 256) + (5 * (size % 256)) \div 256

RECURSIVE DivPow1024(_, _)
DivPow1024(x, n) == IF n = 0 THEN x ELSE DivPow1024(x \div 1024, n - 1)

\* Math.round((size / 1024^n) * 10), n >= 1
RoundTenths(size, n) == (DivPow1024(Times20Div1024(size), n - 1) + 1) \div 2

\* The last branch divides by 1073741824 * 1024 = 1024^4.
getSize(size) ==
    IF ~IsNum(size) THEN [tenths |-> NaN, unit |-> "GB"]
    ELSE IF size < 1024 THEN [tenths |-> size * 10, unit |-> "Bytes"]
    ELSE IF size < 1048576 THEN [tenths |-> RoundTenths(size, 1), unit |-> "KB"]
    ELSE IF size < 1073741824 THEN [tenths |-> RoundTenths(size, 2), unit |-> "MB"]
    ELSE [tenths |-> RoundTenths(size, 4), unit |-> "GB"]

\* The status -> presentation ternaries of getRecords.
progressClassOf(status) ==
    IF status = "Finished" THEN "success"
    ELSE IF status = "Pending" \/ status = "InProgress" THEN "info"
    ELSE IF status = "Failed" THEN "danger"
    ELSE "warning"

actionClassOfPendingWarning(status) ==
    IF status = "Finished" THEN "primary"
    ELSE IF status = "Failed" \/ status = "Cancelled" THEN "success"
    ELSE "warning"

actionClassOf(status) ==
    IF status = "Finished" THEN "primary"
    ELSE IF status = "Failed" \/ status = "Cancelled" \/ status = "Pending" THEN "success"
    ELSE "warning"

iconOf(status) ==
    IF status = "Finished" THEN "fa fa-folder-open"
    ELSE IF status = "Failed" \/ status = "Cancelled" THEN "fa fa-play"
    ELSE "fa fa-pause"

\* const progress = ... in getRecords: 89 in main.js, else 100 / 50.
recordProgress(s, status) ==
    IF s = "main" THEN 89
    ELSE IF status = "Finished" THEN 100 ELSE 50

\* ------------------------------------------------------- pasted text
\* A text is the sequence of its characters.
Lower == {"a","b","c","d","e","f","g","h","i","j","k","l","m",
          "n","o","p","q","r","s","t","u","v","w","x","y","z"}
Upper == {"A","B","C","D","E","F","G","H","I","J","K","L","M",
          "N","O","P","Q","R","S","T","U","V","W","X","Y","Z"}
Digit == {"0","1","2","3","4","5","6","7","8","9"}

UrlFile   == <<"h", "t", "t", "p", "s", ":", "/", "/", "e", "x", "a", "m", "p", "l", "e", ".", "c", "o", "m", "/", "f", "i", "l", "e", ".", "z", "i", "p">>
UrlNoFile == <<"h", "t", "t", "p", "s", ":", "/", "/", "e", "x", "a", "m", "p", "l", "e", ".", "c", "o", "m", "/">>
NotAUrl   == <<"n", "o", "t", " ", "a", " ", "u", "r", "l">>
UrlDir    == <<"h", "t", "t", "p", ":", "/", "/", "a", ".", "i", "o", "/", "v", "1", ".", "0", "/">>
UrlFtps   == <<"f", "t", "p", "s", ":", "/", "/", "h", ".", "i", "o", "/", "a", ".", "g", "z">>
Texts == {UrlFile, UrlNoFile, NotAUrl, UrlDir, UrlFtps}

\* /^(https|http|ftp|ftps){1}:\/\/([a-zA-Z\._0-9-\/]+)\/[a-zA-Z0-9\._-]+\.[a-z0-9]/
\* Each step maps the set of offsets reached so far to the offsets reached
\* after the next piece of the pattern; test() is true when one is left.
Schemes == {<<"h", "t", "t", "p", "s">>, <<"h", "t", "t", "p">>, <<"f", "t", "p">>, <<"f", "t", "p", "s">>}
HostClass    == Lower \cup Upper \cup Digit \cup {".", "_", "-", "/"}
SegmentClass == Lower \cup Upper \cup Digit \cup {".", "_", "-"}
LastClass    == Lower \cup Digit

StartsAt(str, p, lit) ==
    /\ p + Len(lit) <= Len(str)
    /\ \A k \in 1..Len(lit) : str[p + k] = lit[k]

AfterLiteral(str, P, lit) == {p + Len(lit) : p \in {q \in P : StartsAt(str, q, lit)}}

AfterOneOrMore(str, P, class) ==
    {q \in 1..Len(str) :
        \E p \in P : p < q /\ \A k \in (p + 1)..q : str[k] \in class}

AfterOne(str, P, class) ==
    {p + 1 : p \in {q \in P : q < Len(str) /\ str[q + 1] \in class}}

isDownloadUrl(str) ==
    LET p1 == UNION {AfterLiteral(str, {0}, s) : s \in Schemes}
        p2 == AfterLiteral(str, p1, <<":", "/", "/">>)
        p3 == AfterOneOrMore(str, p2, HostClass)
        p4 == AfterLiteral(str, p3, <<"/">>)
        p5 == AfterOneOrMore(str, p4, SegmentClass)
        p6 == AfterLiteral(str, p5, <<".">>)
        p7 == AfterOne(str, p6, LastClass)
    IN  p7 # {}

\* isDownloadUrl of the first copy in part_001 (lines 25-31):
\* /^(https?|ftp):\/\/[^\s/$.?#].[^\s]*$/i  and  str.toLowerCase() ends with
\* one of fileExtensions.
LowerSeq == <<"a","b","c","d","e","f","g","h","i","j","k","l","m",
              "n","o","p","q","r","s","t","u","v","w","x","y","z">>
UpperSeq == <<"A","B","C","D","E","F","G","H","I","J","K","L","M",
              "N","O","P","Q","R","S","T","U","V","W","X","Y","Z">>

toLowerCase(str) ==
    [k \in 1..Len(str) |->
        IF str[k] \in Upper
        THEN LowerSeq[CHOOSE i \in 1..26 : UpperSeq[i] = str[k]]
        ELSE str[k]]

Whitespace == {" ", "\t", "\n", "\r", "\f"}
SchemesExt == {<<"h", "t", "t", "p">>, <<"h", "t", "t", "p", "s">>, <<"f", "t", "p">>}
fileExtensions ==
    {<<".", "p", "d", "f">>, <<".", "z", "i", "p">>, <<".", "e", "x", "e">>,
     <<".", "m", "p", "3">>, <<".", "t", "x", "t">>, <<".", "j", "p", "g">>,
     <<".", "p", "n", "g">>, <<".", "t", "a", "r">>, <<".", "g", "z">>}

AfterOneNot(str, P, excluded) ==
    {p + 1 : p \in {q \in P : q < Len(str) /\ str[q + 1] \notin excluded}}

endsWith(str, suffix) ==
    /\ Len(suffix) <= Len(str)
    /\ StartsAt(str, Len(str) - Len(suffix), suffix)

isDownloadUrlExt(str) ==
    LET low == toLowerCase(str)   \* the i flag: letters match in either case
        p1 == UNION {AfterLiteral(low, {0}, s) : s \in SchemesExt}
        p2 == AfterLiteral(low, p1, <<":", "/", "/">>)
        p3 == AfterOneNot(str, p2, Whitespace \cup {"/", "$", ".", "?", "#"})
        p4 == AfterOneNot(str, p3, {"\n", "\r"})
        p5 == {p \in p4 : \A k \in (p + 1)..Len(str) : str[k] \notin Whitespace}
    IN  p5 # {} /\ \E extension \in fileExtensions : endsWith(low, extension)

\* ---------------------------------------------------------------- state
VARIABLES
    script,            \* the snapshot of the page script that is loaded
    downloadProgress,  \* part_001: let downloadProgress = {} (absent key: Undefined)
    rows,              \* children of <tbody id="download-records">, first to last
    store,             \* the backend's records (id -> status, or "absent") as of
                       \* the latest fetch_records call
    pending,           \* data of the fetch_records calls awaiting their answer
    lastOp,            \* the kind of handler that ran last and how it ended
    session,           \* history of one download's events (SpecSession only)
    searchField,       \* value of <input id="search">
    downloadCall,      \* the paste handler's invoke("download") awaiting its answer
    downloads,         \* urls passed to invoke("download") so far
    probe,             \* the last direct call of a pure function and its result
    opened             \* paths passed to invoke("open_file") so far

form == <<searchField, downloadCall, downloads>>
vars == <<script, downloadProgress, rows, store, pending, lastOp, session,
          searchField, downloadCall, downloads, probe, opened>>

HasListeners(s) == s \in {"part_000", "part_001"}
HasProgressMap(s) == s = "part_001"

\* Backend data ------------------------------------------------------------
fileSizeOf(id) == 2 * id
pathOf(id) == id

Item(id, status) ==
    [id |-> id, download_status |-> status, file_size |-> fileSizeOf(id),
     destination_path |-> pathOf(id)]

\* What fetch_records answers for a store: the records present, by id.
RECURSIVE DataFrom(_, _)
DataFrom(st, id) ==
    IF id \notin Ids THEN <<>>
    ELSE (IF st[id] = "absent" THEN <<>> ELSE <<Item(id, st[id])>>)
         \o DataFrom(st, id + 1)

fetch_records(st) == DataFrom(st, 1)

\* The backend is not in this repository. Between two fetch_records calls it
\* may create records (InProgress) and finish InProgress ones; a record is
\* never deleted and Finished is final. store is the backend's list as of
\* the latest fetch_records call, Later(store) what a new call may find.
Rank(v) == IF v = "absent" THEN 0 ELSE IF v = "InProgress" THEN 1 ELSE 2

Later(st) ==
    {st2 \in [Ids -> {"absent"} \cup StoreStatuses] :
        \A id \in Ids : Rank(st[id]) <= Rank(st2[id])}

\* Rows --------------------------------------------------------------------
\* The <tr> that getRecords builds for one item. main.js gives no ids to the
\* row and its cells; the other two give the size cell the id "size=<id>".
\* The click listener of the row's action-link, as the path it passes to
\* open_file (<<>>: no listener). part_000 lines 102-109 add one to every
\* action-link, closing over data[i]; main.js and part_001 have
\* onclick="alert('hello')" instead.
clickListener(s, item) ==
    IF s = "part_000" THEN <<item.destination_path>> ELSE <<>>

RecordRow(s, item) ==
    [id          |-> item.id,
     kind        |-> "record",
     progId      |-> s # "main",
     sizeId      |-> IF s = "main" THEN "none" ELSE "size=",
     label       |-> item.download_status,
     pct         |-> PctText(recordProgress(s, item.download_status), 0),
     barClass    |-> progressClassOf(item.download_status),
     size        |-> getSize(item.file_size),
     actionClass |-> actionClassOf(item.download_status),
     icon        |-> iconOf(item.download_status),
     action      |-> clickListener(s, item)]

\* The <tr> that the download-started listener builds.
StartedRow(id) ==
    [id          |-> id,
     kind        |-> "live",
     progId      |-> TRUE,
     sizeId      |-> "size-",
     label       |-> "Pending",
     pct         |-> PctText(0, 0),
     barClass    |-> "info",
     size        |-> [tenths |-> 0, unit |-> "B"],
     actionClass |-> "none",
     icon        |-> "none",
     action      |-> <<>>]

\* let htmlBody = ''; for (let item of data) htmlBody += `<tr>...`
Render(s, data) == [i \in 1..Len(data) |-> RecordRow(s, data[i])]

\* document.getElementById: the first match in tree order, 0 for null.
FirstOf(S) == IF S = {} THEN 0 ELSE CHOOSE i \in S : \A j \in S : i <= j

\* getElementById(`progress-${id}`) and getElementById(`size-${id}`)
ProgressCell(rs, id) ==
    FirstOf({i \in 1..Len(rs) : rs[i].progId /\ rs[i].id = id})

SizeCell(rs, id) ==
    FirstOf({i \in 1..Len(rs) : rs[i].sizeId = "size-" /\ rs[i].id = id})

\* op: "onload", "event" (a download-* listener), "fetchResolved",
\* "fetchRejected", "paste", "pasteResumed"; thrown: the uncaught error the handler ended with.
Op(op, thrown) == [op |-> op, thrown |-> thrown]

\* ------------------------------------------------------------------ Init
\* The script has run: the listeners are registered, downloadProgress is {},
\* and window.onload has called getRecords(), whose request is in flight.
NoSession == [id |-> 0, phase |-> "none", sum |-> 0, total |-> 0, fetches |-> 0,
              messages |-> 0]
NoCall == <<>>

InitPage ==
    /\ script \in Scripts
    /\ downloadProgress = [i \in Keys |-> Undefined]
    /\ rows = <<>>
    /\ store \in [Ids -> {"absent"} \cup StoreStatuses]
    /\ pending = <<fetch_records(store)>>
    /\ lastOp = Op("onload", "none")

InitForm ==
    /\ searchField = <<>>
    /\ downloadCall = NoCall
    /\ downloads = <<>>

NoProbe == [fn |-> "none", arg |-> <<>>, out |-> <<>>]

Init == InitPage /\ InitForm /\ session = NoSession /\ probe = NoProbe /\ opened = <<>>

\* --------------------------------------------------------------- actions
\* listen("download-started"): part_001 line 235 zeroes the map entry; both
\* snapshots then build a row and insert it before tBody.firstChild.
startedProgress(dp, id) == [dp EXCEPT ![id] = 0]

insertLast(rs, row) == Append(rs, row)

\* tBody.insertBefore(row, tBody.firstChild)
insertFirst(rs, row) == <<row>> \o rs

DownloadStarted(id) ==
    /\ HasListeners(script)
    /\ Len(rows) < MaxRows
    /\ downloadProgress' = IF HasProgressMap(script)
                            THEN startedProgress(downloadProgress, id)
                            ELSE downloadProgress
    /\ rows' = insertFirst(rows, StartedRow(id))
    /\ lastOp' = Op("event", "none")
    /\ UNCHANGED <<script, store, pending>>

\* progressCell.innerHTML = `... aria-label="Pending" ... ${percentage}% ...`
SetProgress(rs, i, p) ==
    [rs EXCEPT ![i].pct = p,
               ![i].barClass = IF IsHundred(p) THEN "success" ELSE "info",
               ![i].label = "Pending"]

\* sizeCell.innerHTML = getSize(currentSize)
SetSize(rs, j, sz) == [rs EXCEPT ![j].size = sz]

\* part_001 lines 280-285: the new value of the map entry.
accumulate(old, downloaded) == JsAdd(old, downloaded)

\* listen("download-progress") of part_001 (lines 278-306).
Progress001(id, downloaded, totalSize) ==
    LET currentSize == JsAdd(downloadProgress[id], downloaded)
        percentage  == PctText(ToFixedPct(currentSize, totalSize, 0), 0)
        i   == ProgressCell(rows, id)
        rs1 == SetProgress(rows, i, percentage)
        j   == SizeCell(rows, id)
    IN  /\ downloadProgress' =
              [downloadProgress EXCEPT ![id] = accumulate(@, downloaded)]
        /\ IF i = 0
           THEN rows' = rows /\ lastOp' = Op("event", "TypeError")
           ELSE IF j = 0
           THEN rows' = rs1 /\ lastOp' = Op("event", "TypeError")
           ELSE /\ rows' = SetSize(rs1, j, getSize(currentSize))
                /\ lastOp' = Op("event", "none")
        /\ UNCHANGED <<pending, store>>

\* listen("download-progress") of part_000 (lines 182-216): the percentage
\* comes from the event alone; on 100 getRecords() is called; line 214 reads
\* currentSize and totalSize, which no scope declares: evaluating the right
\* side throws ReferenceError before the size cell is written, whether
\* getElementById found the cell or not.
\* cap bounds the requests in flight when getRecords() is called.
Progress000(id, downloaded, totalSize, cap) ==
    LET percentage == PctText(ToFixedPct(downloaded, totalSize, 2), 2)
        i == ProgressCell(rows, id)
    IN  /\ UNCHANGED downloadProgress
        /\ IF i = 0
           THEN /\ UNCHANGED <<rows, pending, store>>
                /\ lastOp' = Op("event", "TypeError")
           ELSE /\ rows' = SetProgress(rows, i, percentage)
                /\ IF IsHundred(percentage)
                   THEN /\ Len(pending) < cap
                        /\ \E st2 \in Later(store) :
                              /\ store' = st2
                              /\ pending' = Append(pending, fetch_records(st2))
                   ELSE UNCHANGED <<pending, store>>
                /\ lastOp' = Op("event", "ReferenceError")

ProgressEvent(id, downloaded, totalSize, cap) ==
    /\ HasListeners(script)
    /\ IsNum(downloadProgress[id]) => downloadProgress[id] + downloaded <= MaxBytes
    /\ IF HasProgressMap(script)
       THEN Progress001(id, downloaded, totalSize)
       ELSE Progress000(id, downloaded, totalSize, cap)
    /\ UNCHANGED script

DownloadProgress(id, downloaded, totalSize) ==
    ProgressEvent(id, downloaded, totalSize, MaxPending)

\* listen("download-finished"): part_001 only logs (lines 308-310); part_000
\* registers no listener for it, so the event reaches no code.
DownloadFinished(id) ==
    /\ HasListeners(script)
    /\ lastOp' = Op("event", "none")
    /\ UNCHANGED <<script, downloadProgress, rows, store, pending>>

\* listen("download-message"): part_001 only logs (lines 312-314); onMessage
\* is what the listener's body makes of the rows.
onMessageMarking(rs) == [i \in 1..Len(rs) |-> [rs[i] EXCEPT !.label = "Finished"]]

onMessage(rs) == rs

DownloadMessage(id) ==
    /\ HasListeners(script)
    /\ rows' = onMessage(rows)
    /\ lastOp' = Op("event", "none")
    /\ UNCHANGED <<script, downloadProgress, store, pending>>

\* getRecords after the await: the answer to request k arrives and the
\* loop's htmlBody replaces the tbody's innerHTML.
RemoveAt(s, k) == [i \in 1..(Len(s) - 1) |-> IF i < k THEN s[i] ELSE s[i + 1]]

installRecords(s, rs, data) == Render(s, data)

FetchResolve(k) ==
    /\ k \in 1..Len(pending)
    /\ rows' = installRecords(script, rows, pending[k])
    /\ pending' = RemoveAt(pending, k)
    /\ lastOp' = Op("fetchResolved", "none")
    /\ UNCHANGED <<script, downloadProgress, store>>

\* getRecords when invoke("fetch_records") rejects: catch (error) logs it.
catchRecordsClearing(rs) == <<>>

catchRecords(rs) == rs

FetchReject(k) ==
    /\ k \in 1..Len(pending)
    /\ rows' = catchRecords(rows)
    /\ pending' = RemoveAt(pending, k)
    /\ lastOp' = Op("fetchRejected", "none")
    /\ UNCHANGED <<script, downloadProgress, store>>

\* ------------------------------------------------------------------ Spec
\* The listeners and getRecords under arbitrary events and answers.
Next ==
    \/ \E id \in Ids : DownloadStarted(id) /\ UNCHANGED <<session, form, probe, opened>>
    \/ \E id \in Ids, d \in Deltas, t \in Totals :
          DownloadProgress(id, d, t) /\ UNCHANGED <<session, form, probe, opened>>
    \/ \E id \in Ids : DownloadFinished(id) /\ UNCHANGED <<session, form, probe, opened>>
    \/ \E id \in Ids : DownloadMessage(id) /\ UNCHANGED <<session, form, probe, opened>>
    \/ \E k \in 1..MaxPending : FetchResolve(k) /\ UNCHANGED <<session, form, probe, opened>>
    \/ \E k \in 1..MaxPending : FetchReject(k) /\ UNCHANGED <<session, form, probe, opened>>

Spec == Init /\ [][Next]_vars

\* ------------------------------------------------------------- SpecPaste
\* searchField.addEventListener("paste", async (event) => ...). The pasted
\* text is in the field when the handler starts. A rejected classification
\* logs and clears the field; an accepted one calls invoke("download") and
\* the handler waits for its answer.
clearField(field) == <<>>

Paste(text) ==
    /\ downloadCall = NoCall
    /\ IF isDownloadUrl(text)
       THEN /\ Len(downloads) < MaxDownloads
            /\ downloads' = Append(downloads, text)
            /\ downloadCall' = <<text>>
            /\ searchField' = text
       ELSE /\ searchField' = clearField(text)
            /\ UNCHANGED <<downloads, downloadCall>>
    /\ lastOp' = Op("paste", "none")
    /\ UNCHANGED <<script, downloadProgress, rows, store, pending, session, probe, opened>>

\* invoke("download") resolves: main.js calls getRecords() (line 113, commented
\* out in the later snapshots), then the field is cleared.
DownloadResolve ==
    /\ downloadCall # NoCall
    /\ downloadCall' = NoCall
    /\ searchField' = clearField(searchField)
    /\ IF script = "main"
       THEN /\ Len(pending) < MaxPending
            /\ \E st2 \in Later(store) :
                  /\ store' = st2
                  /\ pending' = Append(pending, fetch_records(st2))
       ELSE UNCHANGED <<store, pending>>
    /\ lastOp' = Op("pasteResumed", "none")
    /\ UNCHANGED <<script, downloadProgress, rows, downloads, session, probe, opened>>

\* invoke("download") rejects: the await throws inside the async handler, no
\* try surrounds it, so the statements after it never run.
DownloadReject ==
    /\ downloadCall # NoCall
    /\ downloadCall' = NoCall
    /\ lastOp' = Op("pasteResumed", "UnhandledRejection")
    /\ UNCHANGED <<script, downloadProgress, rows, store, pending, downloads,
                   searchField, session, probe, opened>>

NextPaste ==
    \/ \E text \in Texts : Paste(text)
    \/ DownloadResolve
    \/ DownloadReject
    \/ \E k \in 1..MaxPending : FetchResolve(k) /\ UNCHANGED <<session, form, probe, opened>>
    \/ \E k \in 1..MaxPending : FetchReject(k) /\ UNCHANGED <<session, form, probe, opened>>

SpecPaste == Init /\ [][NextPaste]_vars

\* ----------------------------------------------------------- SpecSession
\* One download's events in the order the backend emits them: started, then
\* progress events that all carry the same totalSize, then finished; the
\* answers to fetch_records arrive at any point in between. session records
\* the id, the sum of the 'downloaded' fields and the getRecords() calls the
\* listeners made for it.
SessionStarted(id) ==
    /\ session.phase = "none"
    /\ DownloadStarted(id)
    /\ session' = [id |-> id, phase |-> "started", sum |-> 0, total |-> 0,
                   fetches |-> 0, messages |-> session.messages]
    /\ UNCHANGED <<form, probe, opened>>

SessionProgress(d, t) ==
    /\ session.phase \in {"started", "progress"}
    /\ session.phase = "progress" => t = session.total
    /\ session.sum + d <= MaxBytes
    /\ DownloadProgress(session.id, d, t)
    /\ session' = [session EXCEPT !.phase = "progress", !.sum = @ + d,
                                  !.total = t,
                                  !.fetches = @ + Len(pending') - Len(pending)]
    /\ UNCHANGED <<form, probe, opened>>

SessionFinished ==
    /\ session.phase = "progress"
    /\ DownloadFinished(session.id)
    /\ session' = [session EXCEPT !.phase = "finished"]
    /\ UNCHANGED <<form, probe, opened>>

\* A download-message event, for any id and at any point of the session.
SessionMessage(id) ==
    /\ session.messages < MaxMessages
    /\ DownloadMessage(id)
    /\ session' = [session EXCEPT !.messages = @ + 1]
    /\ UNCHANGED <<form, probe, opened>>

NextSession ==
    \/ \E id \in Ids : SessionStarted(id)
    \/ \E id \in Ids : SessionMessage(id)
    \/ \E d \in Deltas, t \in Totals : SessionProgress(d, t)
    \/ SessionFinished
    \/ \E k \in 1..MaxPending : FetchResolve(k) /\ UNCHANGED <<session, form, probe, opened>>
    \/ \E k \in 1..MaxPending : FetchReject(k) /\ UNCHANGED <<session, form, probe, opened>>

SpecSession == Init /\ [][NextSession]_vars

\* ----------------------------------------------------------- SpecRecords
\* getRecords alone, over a backend whose records take every status.
InitRecords ==
    /\ script \in Scripts
    /\ downloadProgress = [i \in Keys |-> Undefined]
    /\ rows = <<>>
    /\ store \in [Ids -> {"absent"} \cup Statuses]
    /\ pending = <<fetch_records(store)>>
    /\ lastOp = Op("onload", "none")
    /\ InitForm /\ session = NoSession /\ probe = NoProbe /\ opened = <<>>

NextRecords ==
    \/ \E k \in 1..MaxPending : FetchResolve(k) /\ UNCHANGED <<session, form, probe, opened>>
    \/ \E k \in 1..MaxPending : FetchReject(k) /\ UNCHANGED <<session, form, probe, opened>>

SpecRecords == InitRecords /\ [][NextRecords]_vars

\* -------------------------------------------------------------- SpecPure
\* getSize and the two isDownloadUrl called directly; probe holds the call.
page == <<script, downloadProgress, rows, store, pending, lastOp>>

\* Byte counts around every unit and rounding boundary, below 2^31.
SizesAt(unit, multiples) ==
    {m * unit + o : m \in multiples,
                    o \in {-1, 0, 1, unit \div 20, unit \div 2, (unit \div 2) + 1}}

Sizes ==
    SizesAt(1, 1..4) \cup SizesAt(1024, 1..8) \cup SizesAt(1048576, 1..8)
        \cup SizesAt(1073741824, {1})

CallGetSize(size) ==
    /\ probe' = [fn |-> "getSize", arg |-> size, out |-> getSize(size)]
    /\ UNCHANGED <<page, session, form, opened>>

CallIsDownloadUrl(text) ==
    /\ probe' = [fn |-> "isDownloadUrl", arg |-> text, out |-> isDownloadUrl(text)]
    /\ UNCHANGED <<page, session, form, opened>>

CallIsDownloadUrlExt(text) ==
    /\ probe' = [fn |-> "isDownloadUrlExt", arg |-> text,
                 out |-> isDownloadUrlExt(text)]
    /\ UNCHANGED <<page, session, form, opened>>

InitPure ==
    /\ Init
    /\ script = "part_000"
    /\ store = [i \in Ids |-> "absent"]

NextPure ==
    \/ \E size \in Sizes : CallGetSize(size)
    \/ \E text \in Texts : CallIsDownloadUrl(text)
    \/ \E text \in Texts : CallIsDownloadUrlExt(text)

SpecPure == InitPure /\ [][NextPure]_vars

\* ----------------------------------------------------------- SpecPayload
\* The listeners under events whose payload may lack downloadId: the id the
\* handlers read is then undefined.
NextPayload ==
    \/ \E id \in Keys : DownloadStarted(id) /\ UNCHANGED <<session, form, probe, opened>>
    \/ \E id \in Keys, d \in Deltas, t \in Totals :
          DownloadProgress(id, d, t) /\ UNCHANGED <<session, form, probe, opened>>
    \/ \E k \in 1..MaxPending : FetchResolve(k) /\ UNCHANGED <<session, form, probe, opened>>
    \/ \E k \in 1..MaxPending : FetchReject(k) /\ UNCHANGED <<session, form, probe, opened>>

SpecPayload == Init /\ [][NextPayload]_vars

\* ------------------------------------------------------------- SpecClick
\* A click on the action-link of row i runs the listener that getRecords
\* attached to it, if any.
ClickAction(i) ==
    /\ i \in 1..Len(rows)
    /\ Len(opened) < MaxOpens
    /\ opened' = opened \o rows[i].action
    /\ lastOp' = Op("click", "none")
    /\ UNCHANGED <<script, downloadProgress, rows, store, pending>>

NextClick ==
    \/ \E i \in 1..MaxRows : ClickAction(i) /\ UNCHANGED <<session, form, probe>>
    \/ \E k \in 1..MaxPending : FetchResolve(k) /\ UNCHANGED <<session, form, probe, opened>>
    \/ \E k \in 1..MaxPending : FetchReject(k) /\ UNCHANGED <<session, form, probe, opened>>

SpecClick == InitRecords /\ [][NextClick]_vars

\* ------------------------------------------------------------ SpecResync
\* part_000 with up to MaxInFlight fetch_records requests in flight: the one
\* of window.onload and those of completing progress events. pending is in
\* the order of the calls; the answers arrive in any order.
InitResync == Init /\ script = "part_000"

NextResync ==
    \/ \E id \in Ids : DownloadStarted(id) /\ UNCHANGED <<session, form, probe, opened>>
    \/ \E id \in Ids, d \in Deltas, t \in Totals :
          ProgressEvent(id, d, t, MaxInFlight) /\ UNCHANGED <<session, form, probe, opened>>
    \/ \E k \in 1..MaxInFlight : FetchResolve(k) /\ UNCHANGED <<session, form, probe, opened>>

SpecResync == InitResync /\ [][NextResync]_vars

\* The row whose progress cell getElementById("progress-<id>") finds.
ShownPct(id) == rows[ProgressCell(rows, id)].pct

\* ---------------------------------------------------------------- claims
\* C1: after the progress events of a download (started first, deltas d1..dn)
\* the byte count recorded for the id is d1+...+dn, and the percentage and
\* the size shown for it are computed from that sum.
C1_ExactlyOnce ==
    (HasListeners(script) /\ session.phase = "progress") =>
        /\ HasProgressMap(script) => downloadProgress[session.id] = session.sum
        /\ ProgressCell(rows, session.id) # 0
        /\ ShownPct(session.id).val =
              ToFixedPct(session.sum, session.total, ShownPct(session.id).digits)
        /\ \E j \in 1..Len(rows) :
              rows[j].id = session.id /\ rows[j].size = getSize(session.sum)

\* Rows of an id that a download-started listener built.
LiveRows(rs, id) == {i \in 1..Len(rs) : rs[i].id = id /\ rs[i].kind = "live"}

\* C2: a download-started event for an id whose accumulator already holds
\* n > 0 leaves n in place and adds no second live row for the id.
C2_StartedIdempotent ==
    [][\A id \in Ids :
         (DownloadStarted(id) /\ HasProgressMap(script)
            /\ downloadProgress[id] > 0) =>
             /\ downloadProgress'[id] = downloadProgress[id]
             /\ Cardinality(LiveRows(rows', id)) <= 1]_vars

\* C3: every percentage shown is a number from 0 to 100.
C3_PercentageRange ==
    \A i \in 1..Len(rows) :
        /\ IsNum(rows[i].pct.val)
        /\ rows[i].pct.val <= 100 * Pow10(rows[i].pct.digits)

\* C4: a download-progress event for an id without an accumulator ends without
\* an error and leaves an accumulator holding the event's delta, which a
\* later download-started event does not change.
C4_ProgressBeforeStarted ==
    [][\A id \in Ids :
         /\ \A d \in Deltas, t \in Totals :
               (DownloadProgress(id, d, t) /\ HasProgressMap(script)
                  /\ downloadProgress[id] = Undefined) =>
                   (downloadProgress'[id] = d /\ lastOp'.thrown = "none")
         /\ (DownloadStarted(id) /\ HasProgressMap(script)
               /\ downloadProgress[id] # Undefined) =>
                   downloadProgress'[id] = downloadProgress[id]]_vars

\* C5: started, progress events whose deltas sum to the declared total, then
\* finished: the recorded bytes equal the total, the row shows 100 % and the
\* status Finished, and the listeners called getRecords() exactly once.
C5_Scenario ==
    (HasListeners(script) /\ session.phase = "finished"
       /\ session.total > 0 /\ session.sum = session.total) =>
        /\ HasProgressMap(script) => downloadProgress[session.id] = session.total
        /\ ProgressCell(rows, session.id) # 0
        /\ IsHundred(ShownPct(session.id))
        /\ rows[ProgressCell(rows, session.id)].label = "Finished"
        /\ session.fetches = 1

\* The row of id shows 100 %: its download is complete (a Finished record is
\* rendered with 100 too).
Complete(id) == ProgressCell(rows, id) # 0 /\ IsHundred(ShownPct(id))

\* The progress event that completed id, delivered once more.
Redelivered(id, d, t) ==
    /\ t > 0
    /\ IF HasProgressMap(script) THEN downloadProgress[id] = t ELSE d = t
    /\ DownloadProgress(id, d, t)

\* C6: for an id that is complete, a further download-finished event or the
\* completing progress event delivered again changes neither the
\* accumulator nor the rows and calls getRecords() no further time.
C6_TerminalFinal ==
    [][\A id \in Ids :
         (Complete(id) /\ (\/ DownloadFinished(id)
                            \/ \E d \in Deltas, t \in Totals : Redelivered(id, d, t)))
            => UNCHANGED <<downloadProgress, rows, pending>>]_vars

\* C7: when a fetch_records call fails the rows stay exactly as they were
\* (and so does the progress map); the rejection is consumed.
C7_FailedFetchKeepsList ==
    [][(\E k \in 1..MaxPending : FetchReject(k)) =>
          (rows' = rows /\ downloadProgress' = downloadProgress
             /\ Len(pending') = Len(pending) - 1)]_vars

C7_Witness == lastOp.op = "fetchRejected" /\ rows # <<>>

\* C8: the table never holds two rows for the same id.
C8_UniqueRowIds ==
    \A i, j \in 1..Len(rows) : i # j => rows[i].id # rows[j].id

\* C9: a paste calls invoke("download") exactly when isDownloadUrl accepts the
\* text, and the field is empty once the handler is over: after a rejected
\* classification, after the call resolved and after the call rejected.
C9_PasteClearsField ==
    [][/\ \A text \in Texts :
           Paste(text) =>
               /\ (downloads' # downloads) <=> isDownloadUrl(text)
               /\ isDownloadUrl(text) => downloads' = Append(downloads, text)
               /\ ~isDownloadUrl(text) => searchField' = <<>>
       /\ (DownloadResolve \/ DownloadReject) => searchField' = <<>>]_vars

\* An id is active: it has a numeric accumulator and its row is not complete.
Active(id) ==
    /\ HasProgressMap(script)
    /\ IsNum(downloadProgress[id])
    /\ ProgressCell(rows, id) # 0
    /\ ~IsHundred(ShownPct(id))
    /\ rows[ProgressCell(rows, id)].label \notin Terminal

\* C10: when an answer of fetch_records re-renders the table, the row of an
\* active id still shows the percentage of its accumulator, as before.
C10_LiveProgressSurvivesResync ==
    [][\A k \in 1..MaxPending, id \in Ids :
         (FetchResolve(k) /\ Active(id)) =>
             /\ ProgressCell(rows', id) # 0
             /\ rows'[ProgressCell(rows', id)].pct = ShownPct(id)]_vars

\* The status table: progress class, action class, icon (open-file is the
\* folder-open icon, pause the pause icon, retry the play icon).
StatusTable(status) ==
    CASE status = "Finished"   -> <<"success", "primary", "fa fa-folder-open">>
      [] status = "Pending"    -> <<"info", "success", "fa fa-pause">>
      [] status = "InProgress" -> <<"info", "warning", "fa fa-pause">>
      [] status = "Failed"     -> <<"danger", "success", "fa fa-play">>
      [] status = "Cancelled"  -> <<"warning", "success", "fa fa-play">>

\* C11: every row that getRecords rendered for a record carries the progress
\* class, the action class and the icon that the status table gives for the
\* record's status.
C11_StatusTable ==
    \A i \in 1..Len(rows) :
        rows[i].kind = "record" =>
            <<rows[i].barClass, rows[i].actionClass, rows[i].icon>>
                = StatusTable(rows[i].label)

C11_Witness ==
    /\ lastOp.op = "fetchResolved"
    /\ {rows[i].label : i \in 1..Len(rows)} = {"Pending", "Cancelled"}

\* The text the size format gives: base 1024, one decimal (in tenths), the
\* unit by the thresholds, the GB value being size / 1024^3.
Base1024(size) ==
    IF size < 1024 THEN [tenths |-> size * 10, unit |-> "Bytes"]
    ELSE IF size < 1024 * 1024 THEN [tenths |-> RoundTenths(size, 1), unit |-> "KB"]
    ELSE IF size < 1024 * 1024 * 1024 THEN [tenths |-> RoundTenths(size, 2), unit |-> "MB"]
    ELSE [tenths |-> RoundTenths(size, 3), unit |-> "GB"]

\* C12: getSize(size) is the base-1024 text of size with one decimal: Bytes
\* below 1024, KB below 1024^2, MB below 1024^3, GB (size / 1024^3) above;
\* 1023 is "1023 Bytes", 1536 "1.5 KB", 1048576 "1 MB", 1073741824 "1 GB".
C12_SizeFormat ==
    probe.fn = "getSize" =>
        /\ probe.out = Base1024(probe.arg)
        /\ probe.arg = 1023 => probe.out = [tenths |-> 10230, unit |-> "Bytes"]
        /\ probe.arg = 1536 => probe.out = [tenths |-> 15, unit |-> "KB"]
        /\ probe.arg = 1048576 => probe.out = [tenths |-> 10, unit |-> "MB"]
        /\ probe.arg = 1073741824 => probe.out = [tenths |-> 10, unit |-> "GB"]

\* A text of the shape scheme://host/path whose path ends in a file-like
\* segment: the part after the last "/" is name.extension.
SchemeEnds(str) ==
    {Len(s) + 3 : s \in {t \in Schemes : StartsAt(str, 0, t \o <<":", "/", "/">>)}}

LastSlash(str) ==
    FirstOf({k \in 1..Len(str) :
                str[k] = "/" /\ \A j \in (k + 1)..Len(str) : str[j] # "/"})

Downloadable(str) ==
    \E e \in SchemeEnds(str) :
        /\ LastSlash(str) >= e + 2
        /\ \E k \in (LastSlash(str) + 2)..(Len(str) - 1) : str[k] = "."

\* C13: isDownloadUrl(text) is true exactly for the texts of the shape
\* scheme://host/path (http, https, ftp, ftps) whose path ends in a file-like
\* segment: true for "https://example.com/file.zip", false for "not a url"
\* and for "https://example.com/".
C13_Classifier ==
    probe.fn \in {"isDownloadUrl", "isDownloadUrlExt"} =>
        /\ probe.out <=> Downloadable(probe.arg)
        /\ probe.arg = UrlFile => probe.out
        /\ probe.arg \in {NotAUrl, UrlNoFile} => ~probe.out

\* C14: a download-started or download-progress event whose payload has no
\* downloadId creates no accumulator entry and no row, changes no accumulator
\* and no row, and ends without an error.
C14_MissingIdDropped ==
    [][(\/ DownloadStarted(Undefined)
        \/ \E d \in Deltas, t \in Totals : DownloadProgress(Undefined, d, t))
          => /\ downloadProgress' = downloadProgress
             /\ rows' = rows
             /\ lastOp'.thrown = "none"]_vars

\* C15: a download-message event leaves the progress map, every row, the
\* requests in flight and the download calls as they were.
C15_MessageChangesNothing ==
    [][(\E id \in Ids : SessionMessage(id)) =>
          /\ downloadProgress' = downloadProgress
          /\ rows' = rows
          /\ pending' = pending /\ store' = store
          /\ downloads' = downloads /\ downloadCall' = downloadCall]_vars

C15_Witness ==
    /\ session.messages > 0
    /\ script = "part_001"
    /\ lastOp = Op("event", "none")
    /\ \E i \in 1..Len(rows) : rows[i].kind = "live" /\ downloadProgress[rows[i].id] > 0

\* The answer data shows for id the percentage pct.
Reflects(s, data, id, pct) ==
    \E n \in 1..Len(data) : data[n].id = id /\ RecordRow(s, data[n]).pct = pct

\* C16: when the answer of a fetch_records request is installed while id has
\* a live row whose percentage the answer does not show, the table afterwards
\* still has a row for id with that percentage.
C16_ResyncKeepsLiveRow ==
    [][\A k \in 1..MaxPending, id \in Ids :
         (FetchResolve(k) /\ LiveRows(rows, id) # {}
            /\ ~Reflects(script, pending[k], id, ShownPct(id))) =>
             \E i \in 1..Len(rows') :
                 rows'[i].id = id /\ rows'[i].pct = ShownPct(id)]_vars

\* C17: once the download-finished event of a download has been handled, the
\* listeners have called getRecords() for that download at least once.
C17_TerminalResync ==
    (HasListeners(script) /\ session.phase = "finished") => session.fetches > 0

\* C18: an accumulator that exists holds a non-negative integer, and no step
\* makes it smaller.
C18_NeverDecreases ==
    [][\A id \in Ids :
         /\ downloadProgress'[id] # Undefined => downloadProgress'[id] \in Nat
         /\ downloadProgress[id] # Undefined =>
               downloadProgress'[id] >= downloadProgress[id]]_vars

\* What the page holds for one id: its accumulator and its rows.
StateOf(dp, rs, id) == <<dp[id], {rs[i] : i \in {j \in 1..Len(rs) : rs[j].id = id}}>>

EventFor(id) ==
    \/ DownloadStarted(id)
    \/ \E d \in Deltas, t \in Totals : DownloadProgress(id, d, t)
    \/ DownloadFinished(id)
    \/ DownloadMessage(id)

\* The live row of id stands at 100 %: the progress listener of part_000 has
\* called getRecords() for it.
CompletedLive(id) ==
    /\ script = "part_000"
    /\ \E i \in LiveRows(rows, id) : i = ProgressCell(rows, id) /\ IsHundred(rows[i].pct)

\* C19: for distinct ids a and b, an event for a leaves the accumulator and
\* the rows of b as they were, and so does the answer to the getRecords()
\* call that a's completion made while b is live.
C19_CrossIdIsolation ==
    [][\A a, b \in Ids :
         a # b =>
           /\ EventFor(a) =>
                 StateOf(downloadProgress', rows', b) = StateOf(downloadProgress, rows, b)
           /\ (/\ CompletedLive(a) /\ LiveRows(rows, b) # {} /\ ~CompletedLive(b)
               /\ \E k \in 1..MaxPending : FetchResolve(k)) =>
                 StateOf(downloadProgress', rows', b) = StateOf(downloadProgress, rows, b)]_vars

C21_LastRequestWins ==
    (pending = <<>> /\ lastOp.op = "fetchResolved") =>
        rows = Render(script, fetch_records(store))

\* C22: a download-progress event for an id that has a row in the table,
\* live or rendered by getRecords, finds the progress cell and the size cell
\* of the id, rewrites them and ends without an error.
C22_ProgressOnDisplayedRow ==
    [][\A id \in Ids, d \in Deltas, t \in Totals :
         (DownloadProgress(id, d, t) /\ \E i \in 1..Len(rows) : rows[i].id = id) =>
             /\ ProgressCell(rows, id) # 0
             /\ SizeCell(rows, id) # 0
             /\ lastOp'.thrown = "none"]_vars

\* C23: a click on a row's action calls open_file only when the row's record
\* is Finished, and then with the destination path of that record.
C23_OpenOnlyFinished ==
    [][\A i \in 1..MaxRows :
         (ClickAction(i) /\ opened' # opened) =>
             /\ rows[i].label = "Finished"
             /\ opened' = Append(opened, pathOf(rows[i].id))]_vars
====
